---- MODULE Spec2Model ----
(***************************************************************************)
(* Model of recipes/views.py: RecipeViewSet with its recipe CRUD handlers, *)
(* the favorite / shopping_cart toggles (add_recipe, delete_recipe) and    *)
(* download_shopping_cart, over the Recipe, IngredientRecipe, Favorite and *)
(* ShoppingCart tables.                                                    *)
(*                                                                         *)
(* Spec     : every request is handled to completion before the next one.  *)
(* SpecConc : add_recipe requests of several workers interleave at the     *)
(*            granularity of single ORM queries, with recipe create and    *)
(*            destroy requests in between.                                 *)
(***************************************************************************)
EXTENDS Integers, Sequences, FiniteSets

\* ---------------------------------------------------------------- bounds
NumUsers == 2
MaxRecipeId == 2
NumIngredients == 1
MaxRows == 2
NumProcs == 2

\* ------------------------------------------------------------- constants
Anonymous == 0
HTTP_200_OK == 200
HTTP_201_CREATED == 201
HTTP_204_NO_CONTENT == 204
HTTP_400_BAD_REQUEST == 400
HTTP_401_UNAUTHORIZED == 401
HTTP_403_FORBIDDEN == 403
HTTP_404_NOT_FOUND == 404
HTTP_500_SERVER_ERROR == 500

Users == 1..NumUsers
AllUsers == Users \cup {Anonymous}
RecipeIds == 1..MaxRecipeId
Ingredients == 1..NumIngredients
IngredientSets == SUBSET Ingredients
Procs == 1..NumProcs
Models == {"Favorite", "ShoppingCart"}
SAFE_METHODS == {"GET", "HEAD", "OPTIONS"}

VARIABLES
    Recipe,            \* table: id -> [author]
    nextId,            \* auto-increment primary key of Recipe
    IngredientRecipe,  \* table: set of [recipe, ingredient] rows
    Favorite,          \* table: sequence of [user, recipe] rows
    ShoppingCart,      \* table: sequence of [user, recipe] rows
    last,              \* the request handled last and its response
    pc,                \* SpecConc: position of each worker in add_recipe
    preq,              \* SpecConc: the request of each worker
    pstatus            \* SpecConc: the response status of each worker

tables == <<Recipe, nextId, IngredientRecipe, Favorite, ShoppingCart>>
concVars == <<pc, preq, pstatus>>
vars == <<Recipe, nextId, IngredientRecipe, Favorite, ShoppingCart, last,
          pc, preq, pstatus>>

NoRequest ==
    [action |-> "none", method |-> "none", user |-> Anonymous, pk |-> 0,
     status |-> 0, result |-> <<>>]

Response(action, method, u, pk, st, res) ==
    [action |-> action, method |-> method, user |-> u, pk |-> pk,
     status |-> st, result |-> res]

\* ----------------------------------------------------------- permissions
IsAuthenticated(u) == u # Anonymous

IsAuthenticatedOrReadOnly(method, u) ==
    method \in SAFE_METHODS \/ u # Anonymous

IsAuthorOrReadOnly_has_permission(method, u) ==
    method \in SAFE_METHODS \/ u # Anonymous

IsAuthorOrReadOnly_has_object_permission(method, u, obj) ==
    method \in SAFE_METHODS \/ obj.author = u

RecipePermissionClasses_NoAuthor == {"IsAuthenticatedOrReadOnly"}

RecipePermissionClasses == {"IsAuthorOrReadOnly", "IsAuthenticatedOrReadOnly"}

ActionPermissionClasses_ReadOnly == {"IsAuthenticatedOrReadOnly"}

ActionPermissionClasses == {"IsAuthenticated"}

\* check_permissions: every class of the view must grant the request
HasPermission(classes, method, u) ==
    /\ "IsAuthenticated" \in classes => IsAuthenticated(u)
    /\ "IsAuthenticatedOrReadOnly" \in classes
          => IsAuthenticatedOrReadOnly(method, u)
    /\ "IsAuthorOrReadOnly" \in classes
          => IsAuthorOrReadOnly_has_permission(method, u)

\* check_object_permissions, called by get_object
HasObjectPermission(classes, method, u, obj) ==
    "IsAuthorOrReadOnly" \in classes
        => IsAuthorOrReadOnly_has_object_permission(method, u, obj)

\* ------------------------------------------------------------ ORM queries
\* model.objects.filter(recipe=recipe, user=user): the matching row positions
Filter(table, u, pk) ==
    {i \in DOMAIN table : table[i].user = u /\ table[i].recipe = pk}

Exists(table, u, pk) == Filter(table, u, pk) # {}

RecipeExists(pk) == pk \in DOMAIN Recipe

RemoveAt(table, i) ==
    SubSeq(table, 1, i - 1) \o SubSeq(table, i + 1, Len(table))

\* rows of a table that survive the deletion of recipe pk (on_delete CASCADE)
Cascade(table, pk) == SelectSeq(table, LAMBDA row : row.recipe # pk)

\* the serializers of Favorite and ShoppingCart take no input field
is_valid == TRUE

\* the foreign key of a new row must point at a stored recipe
ForeignKeyHolds(pk) == pk \in DOMAIN Recipe

Init ==
    /\ Recipe = <<>>
    /\ nextId = 1
    /\ IngredientRecipe = {}
    /\ Favorite = <<>>
    /\ ShoppingCart = <<>>
    /\ last = NoRequest
    /\ pc = [p \in Procs |-> "idle"]
    /\ preq = [p \in Procs |-> [user |-> Anonymous, pk |-> 0, model |-> "none"]]
    /\ pstatus = [p \in Procs |-> 0]

\* ------------------------------------------------------- recipe CRUD (ModelViewSet)
\* perform_create: the stored author is the requesting user
perform_create(u) == [author |-> u]

IngredientRows(pk, ings) == {[recipe |-> pk, ingredient |-> g] : g \in ings}

\* POST /recipes/
create(u, ings) ==
    /\ UNCHANGED <<Favorite, ShoppingCart, concVars>>
    /\ IF ~HasPermission(RecipePermissionClasses, "POST", u)
       THEN /\ UNCHANGED <<Recipe, nextId, IngredientRecipe>>
            /\ last' = Response("recipe", "POST", u, 0,
                                HTTP_401_UNAUTHORIZED, <<>>)
       ELSE /\ nextId <= MaxRecipeId
            /\ Recipe' = [pk \in DOMAIN Recipe \cup {nextId} |->
                            IF pk = nextId THEN perform_create(u)
                                           ELSE Recipe[pk]]
            /\ IngredientRecipe' =
                   IngredientRecipe \cup IngredientRows(nextId, ings)
            /\ nextId' = nextId + 1
            /\ last' = Response("recipe", "POST", u, nextId,
                                HTTP_201_CREATED, <<>>)

\* PUT and PATCH /recipes/{pk}/
update(u, pk, ings, method) ==
    /\ UNCHANGED <<Recipe, nextId, Favorite, ShoppingCart, concVars>>
    /\ IF ~HasPermission(RecipePermissionClasses, method, u)
       THEN /\ UNCHANGED IngredientRecipe
            /\ last' = Response("recipe", method, u, pk,
                                HTTP_401_UNAUTHORIZED, <<>>)
       ELSE IF ~RecipeExists(pk)
       THEN /\ UNCHANGED IngredientRecipe
            /\ last' = Response("recipe", method, u, pk,
                                HTTP_404_NOT_FOUND, <<>>)
       ELSE IF ~HasObjectPermission(RecipePermissionClasses, method, u,
                                    Recipe[pk])
       THEN /\ UNCHANGED IngredientRecipe
            /\ last' = Response("recipe", method, u, pk,
                                HTTP_403_FORBIDDEN, <<>>)
       ELSE /\ IngredientRecipe' =
                   {row \in IngredientRecipe : row.recipe # pk}
                       \cup IngredientRows(pk, ings)
            /\ last' = Response("recipe", method, u, pk, HTTP_200_OK, <<>>)

\* DELETE /recipes/{pk}/
destroy(u, pk) ==
    /\ UNCHANGED <<nextId, concVars>>
    /\ IF ~HasPermission(RecipePermissionClasses, "DELETE", u)
       THEN /\ UNCHANGED <<Recipe, IngredientRecipe, Favorite, ShoppingCart>>
            /\ last' = Response("recipe", "DELETE", u, pk,
                                HTTP_401_UNAUTHORIZED, <<>>)
       ELSE IF ~RecipeExists(pk)
       THEN /\ UNCHANGED <<Recipe, IngredientRecipe, Favorite, ShoppingCart>>
            /\ last' = Response("recipe", "DELETE", u, pk,
                                HTTP_404_NOT_FOUND, <<>>)
       ELSE IF ~HasObjectPermission(RecipePermissionClasses, "DELETE", u,
                                    Recipe[pk])
       THEN /\ UNCHANGED <<Recipe, IngredientRecipe, Favorite, ShoppingCart>>
            /\ last' = Response("recipe", "DELETE", u, pk,
                                HTTP_403_FORBIDDEN, <<>>)
       ELSE /\ Recipe' = [id \in DOMAIN Recipe \ {pk} |-> Recipe[id]]
            /\ IngredientRecipe' =
                   {row \in IngredientRecipe : row.recipe # pk}
            /\ Favorite' = Cascade(Favorite, pk)
            /\ ShoppingCart' = Cascade(ShoppingCart, pk)
            /\ last' = Response("recipe", "DELETE", u, pk,
                                HTTP_204_NO_CONTENT, <<>>)

\* ------------------------------------------------- favorite and shopping cart
\* add_recipe on the table of `model`: the table it leaves and its status
add_recipe_NoDuplicateCheck(table, u, pk) ==
    IF ~RecipeExists(pk)
    THEN [table |-> table, status |-> HTTP_400_BAD_REQUEST]
    ELSE [table |-> Append(table, [user |-> u, recipe |-> pk]),
          status |-> HTTP_201_CREATED]

add_recipe_NoExistenceCheck(table, u, pk) ==
    IF Exists(table, u, pk)
    THEN [table |-> table, status |-> HTTP_400_BAD_REQUEST]
    ELSE [table |-> Append(table, [user |-> u, recipe |-> pk]),
          status |-> HTTP_201_CREATED]

add_recipe(table, u, pk) ==
    IF ~RecipeExists(pk)
    THEN [table |-> table, status |-> HTTP_400_BAD_REQUEST]
    ELSE IF Exists(table, u, pk)
    THEN [table |-> table, status |-> HTTP_400_BAD_REQUEST]
    ELSE IF is_valid
    THEN [table |-> Append(table, [user |-> u, recipe |-> pk]),
          status |-> HTTP_201_CREATED]
    ELSE [table |-> table, status |-> HTTP_400_BAD_REQUEST]

\* delete_recipe on the table of `model`: the table it leaves and its status
delete_recipe_AnyUser(table, u, pk) ==
    IF ~RecipeExists(pk)
    THEN [table |-> table, status |-> HTTP_404_NOT_FOUND]
    ELSE IF ~Exists(table, u, pk)
    THEN [table |-> table, status |-> HTTP_400_BAD_REQUEST]
    ELSE [table |-> Cascade(table, pk), status |-> HTTP_204_NO_CONTENT]

delete_recipe_NoRowCheck(table, u, pk) ==
    IF ~RecipeExists(pk) \/ ~Exists(table, u, pk)
    THEN [table |-> table, status |-> HTTP_404_NOT_FOUND]
    ELSE [table |-> RemoveAt(table, CHOOSE i \in Filter(table, u, pk) : TRUE),
          status |-> HTTP_204_NO_CONTENT]

delete_recipe(table, u, pk) ==
    IF ~RecipeExists(pk)
    THEN [table |-> table, status |-> HTTP_404_NOT_FOUND]
    ELSE IF ~Exists(table, u, pk)
    THEN [table |-> table, status |-> HTTP_400_BAD_REQUEST]
    ELSE IF Cardinality(Filter(table, u, pk)) > 1
    THEN [table |-> table, status |-> HTTP_500_SERVER_ERROR]
    ELSE [table |-> RemoveAt(table, CHOOSE i \in Filter(table, u, pk) : TRUE),
          status |-> HTTP_204_NO_CONTENT]

Toggle(table, u, pk, method) ==
    IF method = "POST" THEN add_recipe(table, u, pk)
                       ELSE delete_recipe(table, u, pk)

\* POST and DELETE /recipes/{pk}/favorite/
favorite(u, pk, method) ==
    /\ UNCHANGED <<Recipe, nextId, IngredientRecipe, ShoppingCart, concVars>>
    /\ IF ~HasPermission(ActionPermissionClasses, method, u)
       THEN /\ UNCHANGED Favorite
            /\ last' = Response("favorite", method, u, pk,
                                HTTP_401_UNAUTHORIZED, <<>>)
       ELSE LET r == Toggle(Favorite, u, pk, method)
            IN  /\ Len(r.table) <= MaxRows
                /\ Favorite' = r.table
                /\ last' = Response("favorite", method, u, pk, r.status, <<>>)

\* POST and DELETE /recipes/{pk}/shopping_cart/
shopping_cart(u, pk, method) ==
    /\ UNCHANGED <<Recipe, nextId, IngredientRecipe, Favorite, concVars>>
    /\ IF ~HasPermission(ActionPermissionClasses, method, u)
       THEN /\ UNCHANGED ShoppingCart
            /\ last' = Response("shopping_cart", method, u, pk,
                                HTTP_401_UNAUTHORIZED, <<>>)
       ELSE LET r == Toggle(ShoppingCart, u, pk, method)
            IN  /\ Len(r.table) <= MaxRows
                /\ ShoppingCart' = r.table
                /\ last' = Response("shopping_cart", method, u, pk,
                                    r.status, <<>>)

\* the list download_shopping_cart hands to download()
CartIngredients_AllUsers(u) ==
    [i \in 1..Len(ShoppingCart) |->
        {row \in IngredientRecipe : row.recipe = ShoppingCart[i].recipe}]

CartIngredients(u) ==
    LET rows == SelectSeq(ShoppingCart, LAMBDA row : row.user = u)
        recipes == [i \in 1..Len(rows) |-> rows[i].recipe]
    IN  [id \in 1..Len(recipes) |->
            {row \in IngredientRecipe : row.recipe = recipes[id]}]

\* GET /recipes/download_shopping_cart/
download_shopping_cart(u) ==
    /\ UNCHANGED <<tables, concVars>>
    /\ IF ~HasPermission(ActionPermissionClasses, "GET", u)
       THEN last' = Response("download_shopping_cart", "GET", u, 0,
                             HTTP_401_UNAUTHORIZED, <<>>)
       ELSE last' = Response("download_shopping_cart", "GET", u, 0,
                             HTTP_200_OK, CartIngredients(u))

Next ==
    \/ \E u \in AllUsers, ings \in IngredientSets : create(u, ings)
    \/ \E u \in AllUsers, pk \in RecipeIds, ings \in IngredientSets,
          method \in {"PUT", "PATCH"} : update(u, pk, ings, method)
    \/ \E u \in AllUsers, pk \in RecipeIds : destroy(u, pk)
    \/ \E u \in AllUsers, pk \in RecipeIds, method \in {"POST", "DELETE"} :
          favorite(u, pk, method)
    \/ \E u \in AllUsers, pk \in RecipeIds, method \in {"POST", "DELETE"} :
          shopping_cart(u, pk, method)
    \/ \E u \in AllUsers : download_shopping_cart(u)

Spec == Init /\ [][Next]_vars

\* ------------------------------------ add_recipe, one ORM query per step
Table(model) == IF model = "Favorite" THEN Favorite ELSE ShoppingCart

Finish(p, st) ==
    /\ pc' = [pc EXCEPT ![p] = "done"]
    /\ pstatus' = [pstatus EXCEPT ![p] = st]

\* the request passes the permission check and enters add_recipe
StartAdd(p, u, pk, model) ==
    /\ pc[p] = "idle"
    /\ HasPermission(ActionPermissionClasses, "POST", u)
    /\ pc' = [pc EXCEPT ![p] = "check_recipe"]
    /\ preq' = [preq EXCEPT ![p] = [user |-> u, pk |-> pk, model |-> model]]
    /\ UNCHANGED <<tables, last, pstatus>>

\* Recipe.objects.filter(id=pk).exists()
CheckRecipe(p) ==
    /\ pc[p] = "check_recipe"
    /\ IF ~RecipeExists(preq[p].pk)
       THEN Finish(p, HTTP_400_BAD_REQUEST)
       ELSE pc' = [pc EXCEPT ![p] = "get_recipe"] /\ UNCHANGED pstatus
    /\ UNCHANGED <<tables, last, preq>>

\* Recipe.objects.get(pk=pk): DoesNotExist is not caught
GetRecipe(p) ==
    /\ pc[p] = "get_recipe"
    /\ IF ~RecipeExists(preq[p].pk)
       THEN Finish(p, HTTP_500_SERVER_ERROR)
       ELSE pc' = [pc EXCEPT ![p] = "check_duplicate"] /\ UNCHANGED pstatus
    /\ UNCHANGED <<tables, last, preq>>

\* model.objects.filter(recipe=recipe, user=user).exists()
CheckDuplicate(p) ==
    /\ pc[p] = "check_duplicate"
    /\ IF Exists(Table(preq[p].model), preq[p].user, preq[p].pk)
       THEN Finish(p, HTTP_400_BAD_REQUEST)
       ELSE pc' = [pc EXCEPT ![p] = "save"] /\ UNCHANGED pstatus
    /\ UNCHANGED <<tables, last, preq>>

\* serializer.save(user=user, recipe=recipe): the INSERT
Save(p) ==
    /\ pc[p] = "save"
    /\ UNCHANGED <<Recipe, nextId, IngredientRecipe, last, preq>>
    /\ IF ~is_valid
       THEN Finish(p, HTTP_400_BAD_REQUEST)
            /\ UNCHANGED <<Favorite, ShoppingCart>>
       ELSE IF ~ForeignKeyHolds(preq[p].pk)
       THEN Finish(p, HTTP_500_SERVER_ERROR)
            /\ UNCHANGED <<Favorite, ShoppingCart>>
       ELSE /\ Finish(p, HTTP_201_CREATED)
            /\ LET row == [user |-> preq[p].user, recipe |-> preq[p].pk]
               IN  IF preq[p].model = "Favorite"
                   THEN Favorite' = Append(Favorite, row)
                        /\ UNCHANGED ShoppingCart
                   ELSE ShoppingCart' = Append(ShoppingCart, row)
                        /\ UNCHANGED Favorite

NextConc ==
    \/ \E p \in Procs, u \in Users, pk \in RecipeIds, model \in Models :
          StartAdd(p, u, pk, model)
    \/ \E p \in Procs : CheckRecipe(p)
    \/ \E p \in Procs : GetRecipe(p)
    \/ \E p \in Procs : CheckDuplicate(p)
    \/ \E p \in Procs : Save(p)
    \/ \E u \in Users : create(u, Ingredients)
    \/ \E u \in Users, pk \in RecipeIds : destroy(u, pk)

SpecConc == Init /\ [][NextConc]_vars

\* ================================================================ claims
NoDuplicates(table) ==
    \A i, j \in DOMAIN table : table[i] = table[j] => i = j

ToggleActions == {"favorite", "shopping_cart"}

\* the table a toggle action works on, and the one it must leave alone
Own(action) == IF action = "favorite" THEN Favorite ELSE ShoppingCart
OwnAfter(action) == IF action = "favorite" THEN Favorite' ELSE ShoppingCart'
OtherUnchanged(action) ==
    IF action = "favorite" THEN UNCHANGED ShoppingCart ELSE UNCHANGED Favorite

Rejected(st) == st \in {HTTP_401_UNAUTHORIZED, HTTP_403_FORBIDDEN}

\* the step handles a favorite or shopping_cart request of a logged-in user
ToggleStep(method) ==
    /\ last'.action \in ToggleActions
    /\ last'.method = method
    /\ IsAuthenticated(last'.user)

\* C1: with requests handled one after the other, Favorite and ShoppingCart
\* each hold at most one row per (user, recipe) pair.
C1_UniqueRows == NoDuplicates(Favorite) /\ NoDuplicates(ShoppingCart)

C1_Witness ==
    /\ last.action = "shopping_cart" /\ last.method = "POST"
    /\ last.status = HTTP_400_BAD_REQUEST
    /\ Exists(ShoppingCart, last.user, last.pk)
    /\ Exists(Favorite, last.user, last.pk)
    /\ Len(ShoppingCart) = 2

\* C2: a POST for an existing recipe whose row (u, r) is already stored is
\* answered 400 and changes neither Favorite nor ShoppingCart.
C2_DuplicateRejected ==
    [][(/\ ToggleStep("POST")
        /\ RecipeExists(last'.pk)
        /\ Exists(Own(last'.action), last'.user, last'.pk))
       => (/\ last'.status = HTTP_400_BAD_REQUEST
           /\ UNCHANGED <<Favorite, ShoppingCart>>)]_vars

C2_Witness ==
    /\ last.action = "favorite" /\ last.method = "POST"
    /\ last.status = HTTP_400_BAD_REQUEST
    /\ RecipeExists(last.pk)
    /\ Exists(Favorite, last.user, last.pk)

\* C3 as stated: a favorite or shopping_cart request for a recipe id that
\* matches no recipe is answered 404, for POST as for DELETE, and inserts or
\* deletes no row.
C3_Original ==
    [][(/\ last'.action \in ToggleActions
        /\ IsAuthenticated(last'.user)
        /\ ~RecipeExists(last'.pk))
       => (/\ last'.status = HTTP_404_NOT_FOUND
           /\ UNCHANGED <<Favorite, ShoppingCart>>)]_vars

\* C3 amended: for a recipe id that matches no recipe, DELETE is answered 404
\* and POST is answered with a validation error (400); neither inserts or
\* deletes a row.
C3_MissingRecipe ==
    [][(/\ last'.action \in ToggleActions
        /\ IsAuthenticated(last'.user)
        /\ ~RecipeExists(last'.pk))
       => (/\ last'.method = "DELETE" => last'.status = HTTP_404_NOT_FOUND
           /\ last'.method = "POST" => last'.status = HTTP_400_BAD_REQUEST
           /\ UNCHANGED <<Favorite, ShoppingCart>>)]_vars

C3_Witness ==
    /\ last.action \in ToggleActions /\ last.method = "POST"
    /\ IsAuthenticated(last.user)
    /\ last.status = HTTP_400_BAD_REQUEST
    /\ ~RecipeExists(last.pk)
    /\ last.pk < nextId
    /\ Len(Favorite) > 0

\* C4: a DELETE for an existing recipe with no row (u, r) is answered 400,
\* not 404, and changes neither relation, rows of other users included.
C4_MissingRowRejected ==
    [][(/\ ToggleStep("DELETE")
        /\ RecipeExists(last'.pk)
        /\ ~Exists(Own(last'.action), last'.user, last'.pk))
       => (/\ last'.status = HTTP_400_BAD_REQUEST
           /\ UNCHANGED <<Favorite, ShoppingCart>>)]_vars

C4_Witness ==
    /\ last.action \in ToggleActions /\ last.method = "DELETE"
    /\ last.status = HTTP_400_BAD_REQUEST
    /\ RecipeExists(last.pk)
    /\ \E v \in Users \ {last.user} : Exists(Own(last.action), v, last.pk)

\* C5: a created recipe has the requesting user as author, the author never
\* changes, and an update, partial update or delete requested by anyone else
\* is rejected and leaves the recipe, its rows and its existence unchanged.
C5_AuthorOnlyWrite ==
    [][/\ (last'.action = "recipe" /\ last'.method = "POST"
              /\ last'.status = HTTP_201_CREATED)
          => (/\ last'.pk \in DOMAIN Recipe' \ DOMAIN Recipe
              /\ Recipe'[last'.pk].author = last'.user)
       /\ \A pk \in DOMAIN Recipe \cap DOMAIN Recipe' :
              Recipe'[pk].author = Recipe[pk].author
       /\ (/\ last'.action = "recipe"
           /\ last'.method \in {"PUT", "PATCH", "DELETE"}
           /\ RecipeExists(last'.pk)
           /\ Recipe[last'.pk].author # last'.user)
          => (/\ Rejected(last'.status)
              /\ UNCHANGED <<Recipe, IngredientRecipe, Favorite,
                             ShoppingCart>>)]_vars

C5_Witness ==
    /\ last.action = "recipe" /\ last.method \in {"PUT", "PATCH", "DELETE"}
    /\ IsAuthenticated(last.user)
    /\ last.status = HTTP_403_FORBIDDEN
    /\ RecipeExists(last.pk)
    /\ Recipe[last.pk].author # last.user

\* C6 as stated: under interleaving with recipe deletes, every stored
\* Favorite or ShoppingCart row references a stored recipe and add_recipe
\* ends with 201 or a validation error (400) only.
C6_Claim ==
    /\ \A i \in DOMAIN Favorite : RecipeExists(Favorite[i].recipe)
    /\ \A i \in DOMAIN ShoppingCart : RecipeExists(ShoppingCart[i].recipe)
    /\ \A p \in Procs :
          pc[p] = "done"
             => pstatus[p] \in {HTTP_201_CREATED, HTTP_400_BAD_REQUEST}

\* C7: a successful POST appends exactly the row (u, r) and answers 201; a
\* successful DELETE removes exactly that row and answers 204; the other
\* relation, the rows of other users and the recipes stay as they were.
C7_ExactlyOneRow ==
    [][/\ (/\ ToggleStep("POST")
           /\ RecipeExists(last'.pk)
           /\ ~Exists(Own(last'.action), last'.user, last'.pk))
          => (/\ last'.status = HTTP_201_CREATED
              /\ OwnAfter(last'.action) =
                     Append(Own(last'.action),
                            [user |-> last'.user, recipe |-> last'.pk])
              /\ OtherUnchanged(last'.action)
              /\ UNCHANGED <<Recipe, nextId, IngredientRecipe>>)
       /\ (/\ ToggleStep("DELETE")
           /\ RecipeExists(last'.pk)
           /\ Exists(Own(last'.action), last'.user, last'.pk))
          => (/\ last'.status = HTTP_204_NO_CONTENT
              /\ Len(OwnAfter(last'.action)) = Len(Own(last'.action)) - 1
              /\ OwnAfter(last'.action) =
                     SelectSeq(Own(last'.action),
                               LAMBDA row : row # [user |-> last'.user,
                                                   recipe |-> last'.pk])
              /\ OtherUnchanged(last'.action)
              /\ UNCHANGED <<Recipe, nextId, IngredientRecipe>>)]_vars

C7_Witness ==
    /\ last.action = "favorite" /\ last.method = "DELETE"
    /\ last.status = HTTP_204_NO_CONTENT
    /\ ~Exists(Favorite, last.user, last.pk)
    /\ \E v \in Users \ {last.user} : Exists(Favorite, v, last.pk)
    /\ Len(ShoppingCart) > 0

\* C8: download_shopping_cart of user u hands over one entry per ShoppingCart
\* row of u, in row order, entry i being the IngredientRecipe rows of the
\* i-th cart recipe of u; it changes no row of any table.
C8_CartList ==
    [][(last'.action = "download_shopping_cart" /\ IsAuthenticated(last'.user))
       => LET u == last'.user
              res == last'.result
              idx == {i \in DOMAIN ShoppingCart : ShoppingCart[i].user = u}
          IN  /\ last'.status = HTTP_200_OK
              /\ DOMAIN res = 1..Cardinality(idx)
              /\ \A j \in idx :
                    res[Cardinality({k \in idx : k <= j})] =
                       {row \in IngredientRecipe :
                           row.recipe = ShoppingCart[j].recipe}
              /\ UNCHANGED tables]_vars

C8_Witness ==
    /\ last.action = "download_shopping_cart"
    /\ last.status = HTTP_200_OK
    /\ Len(last.result) = 1
    /\ last.result[1] # {}
    /\ \E i \in DOMAIN ShoppingCart :
          /\ ShoppingCart[i].user # last.user
          /\ ~\E j \in DOMAIN ShoppingCart :
                 /\ ShoppingCart[j].user = last.user
                 /\ ShoppingCart[j].recipe = ShoppingCart[i].recipe

\* C9 as stated: when POST requests of one user for one recipe interleave
\* query by query, no relation holds two rows for the pair and at most one
\* of the requests is answered 201.
C9_Claim ==
    /\ NoDuplicates(Favorite)
    /\ NoDuplicates(ShoppingCart)
    /\ \A p, q \in Procs :
          (/\ p # q
           /\ pc[p] = "done" /\ pc[q] = "done"
           /\ preq[p] = preq[q])
          => ~(pstatus[p] = HTTP_201_CREATED /\ pstatus[q] = HTTP_201_CREATED)

\* C10: favorite, shopping_cart and download_shopping_cart ask for a login
\* and nothing more: a logged-in user who is not the author adds and removes
\* the recipe in the own relation, and an anonymous request to any of the
\* three is rejected and changes no row.
C10_LoginOnly ==
    [][/\ (/\ last'.action \in ToggleActions \cup {"download_shopping_cart"}
           /\ ~IsAuthenticated(last'.user))
          => (Rejected(last'.status) /\ UNCHANGED tables)
       /\ (/\ last'.action = "download_shopping_cart"
           /\ IsAuthenticated(last'.user))
          => last'.status = HTTP_200_OK
       /\ (/\ last'.action \in ToggleActions
           /\ IsAuthenticated(last'.user)
           /\ RecipeExists(last'.pk)
           /\ Recipe[last'.pk].author # last'.user)
          => (/\ (/\ last'.method = "POST"
                  /\ ~Exists(Own(last'.action), last'.user, last'.pk))
                 => (/\ last'.status = HTTP_201_CREATED
                     /\ Exists(OwnAfter(last'.action), last'.user, last'.pk))
              /\ (/\ last'.method = "DELETE"
                  /\ Exists(Own(last'.action), last'.user, last'.pk))
                 => (/\ last'.status = HTTP_204_NO_CONTENT
                     /\ ~Exists(OwnAfter(last'.action), last'.user,
                                last'.pk)))]_vars

C10_Witness ==
    /\ last.action = "shopping_cart" /\ last.method = "POST"
    /\ last.status = HTTP_201_CREATED
    /\ Recipe[last.pk].author # last.user
    /\ Exists(ShoppingCart, last.user, last.pk)

====
